---- MODULE Spec2Model ----
(***************************************************************************)
(* Comment rendering of the ticket detail page (TicketDetailContent).      *)
(*                                                                         *)
(* A text is a sequence of tokens.  A token is one UTF-16 code unit        *)
(* ("U+2705"), one character ("*", "\n"), a run of ordinary letters that   *)
(* no pattern of the page tells apart ("first"), or a literal that the     *)
(* page's patterns and its generated markup only ever use as a whole       *)
(* ("Root Cause Analysis", "<strong>").  Every regular expression of the   *)
(* page is an operator that gives, for a start position, the end of the    *)
(* match the backtracking engine finds first, and String.replace with the  *)
(* g flag is ReplaceAll.                                                   *)
(*                                                                         *)
(* After the page come the auth store (lib/store/auth.ts) with the API     *)
(* client's token handling, the paging of the tickets list                 *)
(* (TicketsContent) and the AI chat panel (AIChat), each with a            *)
(* specification of its own in which the other parts are at rest.          *)
(***************************************************************************)
EXTENDS Integers, Sequences, FiniteSets, TLC

VARIABLES comment, pc, confidence, confidenceLevel, mainContent, shown,
          auth, tokens, calls, atCall, loggedOut, mounted,
          tickets, chat

pageVars == <<comment, pc, confidence, confidenceLevel, mainContent, shown>>

authVars == <<auth, tokens, calls, atCall, loggedOut, mounted>>

vars == <<pageVars, authVars, tickets, chat>>

\* null and undefined.  A text that is null is the one-token text NullText, which no
\* comment holds.
Null == "null"

NullText == <<Null>>

\* confidenceMatch when the pattern does not match
NoMatch == [matched |-> FALSE, level |-> <<>>, percentage |-> NullText]

----------------------------------------------------------------------------
(* Character classes *)

\* \s : the white space the inputs use
IsSpace(c) == c \in {" ", "\n"}

\* . : any character but a line terminator
IsDot(c) == c # "\n"

\* \d
IsDigit(c) == c \in {"0", "1", "2", "3", "4", "5", "6", "7", "8", "9"}

\* the i flag on a literal: the literal in either case
Lower(c) ==
  CASE c = "AI" -> "ai"
    [] c = "Root Cause Analysis" -> "root cause analysis"
    [] c = "Analysis method:" -> "analysis method:"
    [] c = "Confidence Level" -> "confidence level"
    [] OTHER -> c

----------------------------------------------------------------------------
(* Positions in a text *)

\* the text from position i on
From(s, i) == SubSeq(s, i, Len(s))

\* whether the literal lit stands at position i
HasAt(s, i, lit) ==
  /\ i >= 1
  /\ i + Len(lit) - 1 <= Len(s)
  /\ \A k \in 1..Len(lit) : s[i + k - 1] = lit[k]

\* the same under the i flag
HasAtI(s, i, lit) ==
  /\ i >= 1
  /\ i + Len(lit) - 1 <= Len(s)
  /\ \A k \in 1..Len(lit) : Lower(s[i + k - 1]) = Lower(lit[k])

\* the first position from i on that holds no white space: where a greedy \s* ends
SkipSpace(s, i) ==
  LET stops == {j \in i..Len(s) : ~IsSpace(s[j])}
  IN IF stops = {} THEN Len(s) + 1
     ELSE CHOOSE j \in stops : \A k \in stops : j <= k

\* the first line terminator from i on, or the end: where .* and .*? before (\n|$) end
LineEnd(s, i) ==
  LET stops == {j \in i..Len(s) : s[j] = "\n"}
  IN IF stops = {} THEN Len(s) + 1
     ELSE CHOOSE j \in stops : \A k \in stops : j <= k

\* ^ under the m flag
AtLineStart(s, i) == i = 1 \/ (i >= 2 /\ i - 1 <= Len(s) /\ s[i - 1] = "\n")

\* the last line terminator in p..q-1, or 0
LastNewline(s, p, q) ==
  LET nls == {j \in p..(q - 1) : s[j] = "\n"}
  IN IF nls = {} THEN 0
     ELSE CHOOSE j \in nls : \A k \in nls : j >= k

\* String.replace(re, ...) with the g flag: end[i] is the position after the match
\* that starts at i (0: none), repl[i] what replaces it; the search goes on after
\* each match
ReplaceAll(s, end, repl) ==
  LET f[i \in 1..(Len(s) + 1)] ==
        IF i > Len(s) THEN <<>>
        ELSE IF end[i] = 0 THEN <<s[i]>> \o f[i + 1]
        ELSE repl[i] \o f[end[i]]
  IN f[1]

----------------------------------------------------------------------------
(* Stage 1: decorations (part_000 lines 535-536) *)

\* the UTF-16 code units of the decorations the inputs use
CodeUnit(c) ==
  CASE c = "U+D83C" -> 55356
    [] c = "U+D83D" -> 55357
    [] c = "U+D83E" -> 55358
    [] c = "U+DFAF" -> 57263
    [] c = "U+DE00" -> 56832
    [] c = "U+DE80" -> 56960
    [] c = "U+DD14" -> 56596
    [] c = "U+DD16" -> 56598
    [] c = "U+2705" -> 9989
    [] c = "U+26A0" -> 9888
    [] c = "U+FE0F" -> 65039
    [] c = "U+2B50" -> 11088
    [] c = "U+2600" -> 9728
    [] c = "U+2728" -> 10024
    [] c = "U+2B55" -> 11093
    [] c = "U+231A" -> 8986
    [] OTHER -> 0

\* The character class of line 535.  The pattern has no u flag, so the class holds
\* the code units of its characters: the three high surrogates and the eleven low
\* surrogates of the supplementary-plane characters, and the five BMP characters.
FixedDecorations ==
  { 55356, 55357, 55358,
    57263, 56523, 56589, 56481, 56960, 56522, 56615, 56598, 57314, 57313, 56628,
    9989, 10060, 9888, 65039, 11088 }

InFixedDecorations(c) == CodeUnit(c) \in FixedDecorations

StripFixedDecorations(s) ==
  LET f[i \in 1..(Len(s) + 1)] ==
        IF i > Len(s) THEN <<>>
        ELSE IF InFixedDecorations(s[i]) THEN f[i + 1]
        ELSE <<s[i]>> \o f[i + 1]
  IN f[1]

IsHighSurrogate(c) == CodeUnit(c) \in 55296..56319

IsLowSurrogate(c) == CodeUnit(c) \in 56320..57343

\* the code point of a surrogate pair
CodePoint(hi, lo) == 65536 + (CodeUnit(hi) - 55296) * 1024 + (CodeUnit(lo) - 56320)

\* the ranges of line 536
InDecorationRanges(n) ==
  \/ n \in 128512..128591
  \/ n \in 127744..128511
  \/ n \in 128640..128767
  \/ n \in 127456..127487
  \/ n \in 9728..9983
  \/ n \in 9984..10175

\* Line 536 has the u flag: it reads code points, a high surrogate followed by a
\* low one being one character.
StripDecorationRanges(s) ==
  LET f[i \in 1..(Len(s) + 1)] ==
        IF i > Len(s) THEN <<>>
        ELSE IF i < Len(s) /\ IsHighSurrogate(s[i]) /\ IsLowSurrogate(s[i + 1])
          THEN IF InDecorationRanges(CodePoint(s[i], s[i + 1])) THEN f[i + 2]
               ELSE <<s[i], s[i + 1]>> \o f[i + 2]
        ELSE IF InDecorationRanges(CodeUnit(s[i])) THEN f[i + 1]
        ELSE <<s[i]>> \o f[i + 1]
  IN f[1]

----------------------------------------------------------------------------
(* Stage 2: banners (lines 537-538) *)

Stars == <<"*", "*">>

\* the banner pattern without the optional ** on either side
BannerEndNoBold(s, i, lit) ==
  LET a == IF i = 1 THEN 1 ELSE IF s[i] = "\n" THEN i + 1 ELSE 0
      p == SkipSpace(s, a)
      d == p + Len(lit)
      q == SkipSpace(s, d)
      r == LastNewline(s, d, q)
  IN IF a = 0 \/ ~HasAtI(s, p, lit) THEN 0
     ELSE IF q > Len(s) THEN q
     ELSE IF r = 0 THEN 0
     ELSE r + 1

\* (?:^|\n)\s*(?:\*\*)?<lit>(?:\*\*)?\s*(?:\n|$) with the i flag, from position i:
\* the position after the match, or 0
BannerEnd(s, i, lit) ==
  LET a == IF i = 1 THEN 1 ELSE IF s[i] = "\n" THEN i + 1 ELSE 0
      p == SkipSpace(s, a)
      b == IF HasAt(s, p, Stars) THEN p + 2 ELSE p
      c == b + Len(lit)
      d == IF HasAt(s, c, Stars) THEN c + 2 ELSE c
      q == SkipSpace(s, d)
      r == LastNewline(s, d, q)
  IN IF a = 0 \/ ~HasAtI(s, b, lit) THEN 0
     ELSE IF q > Len(s) THEN q
     ELSE IF r = 0 THEN 0
     ELSE r + 1

RemoveBanner(s, lit) ==
  ReplaceAll(s, [i \in 1..Len(s) |-> BannerEnd(s, i, lit)],
                [i \in 1..Len(s) |-> <<"\n">>])

----------------------------------------------------------------------------
(* Stage 3: trailers and rules (lines 539-542) *)

Dashes == <<"-", "-", "-">>

\* whether "Analysis method:" (i flag) stands on the line of position i, at i or later
MethodAhead(s, i) ==
  \E j \in i..(LineEnd(s, i) - 1) : Lower(s[j]) = "analysis method:"

\* the position after the line of position i and its line terminator
AfterLine(s, i) ==
  IF LineEnd(s, i) > Len(s) THEN Len(s) + 1 ELSE LineEnd(s, i) + 1

\* ---.*?Analysis method:.*?(?:\n|$)
RuleTrailerEnd(s, i) ==
  IF HasAt(s, i, Dashes) /\ MethodAhead(s, i + 3) THEN AfterLine(s, i + 3) ELSE 0

\* .*?Analysis method:.*?(?:\n|$)
TrailerEnd(s, i) ==
  IF MethodAhead(s, i) THEN AfterLine(s, i) ELSE 0

\* the first position from i on that holds no "-": where a greedy -+ ends
SkipDashes(s, i) ==
  LET stops == {j \in i..Len(s) : s[j] # "-"}
  IN IF stops = {} THEN Len(s) + 1
     ELSE CHOOSE j \in stops : \A k \in stops : j <= k

\* ^\s*---+\s*$ with the m flag
RuleEnd(s, i) ==
  LET p == SkipSpace(s, i)
      d == SkipDashes(s, p)
      q == SkipSpace(s, d)
  IN IF ~AtLineStart(s, i) \/ ~HasAt(s, p, Dashes) THEN 0
     ELSE IF q > Len(s) THEN q
     ELSE LastNewline(s, d, q)

\* ^\s*---.*$ with the m flag
RuleLineEnd(s, i) ==
  LET p == SkipSpace(s, i)
  IN IF AtLineStart(s, i) /\ HasAt(s, p, Dashes) THEN LineEnd(s, p + 3) ELSE 0

RemoveTrailers(s) ==
  LET Del(t, end) == ReplaceAll(t, end, [i \in 1..Len(t) |-> <<>>])
      t1 == Del(s, [i \in 1..Len(s) |-> RuleTrailerEnd(s, i)])
      t2 == Del(t1, [i \in 1..Len(t1) |-> TrailerEnd(t1, i)])
      t3 == Del(t2, [i \in 1..Len(t2) |-> RuleEnd(t2, i)])
  IN Del(t3, [i \in 1..Len(t3) |-> RuleLineEnd(t3, i)])

----------------------------------------------------------------------------
(* Stage 4: inline formatting (lines 543-550) *)

Strong == "<strong>"
StrongEnd == "</strong>"
ItemOpen == "<p class=\"mb-2\">"
ParaOpen == "<p class=\"mb-3\">"
ParaClose == "</p>"
Bullet == "U+2022"

\* the first position from i on, on the line of i, where ** stands, or 0
NextStars(s, i) ==
  LET at == {j \in i..(LineEnd(s, i) - 1) : HasAt(s, j, Stars)}
  IN IF at = {} THEN 0
     ELSE CHOOSE j \in at : \A k \in at : j <= k

\* a ** without its partner taken as bold up to the end of its line
BoldEndToLineEnd(s, i) ==
  IF ~HasAt(s, i, Stars) THEN 0
  ELSE IF NextStars(s, i + 2) # 0 THEN NextStars(s, i + 2) + 2
  ELSE LineEnd(s, i + 2)

\* \*\*(.*?)\*\*
BoldEnd(s, i) ==
  IF HasAt(s, i, Stars) /\ NextStars(s, i + 2) # 0 THEN NextStars(s, i + 2) + 2 ELSE 0

ResolveBold(s) ==
  ReplaceAll(s, [i \in 1..Len(s) |-> BoldEnd(s, i)],
                [i \in 1..Len(s) |->
                   IF BoldEnd(s, i) = 0 THEN <<>>
                   ELSE <<Strong>> \o SubSeq(s, i + 2, BoldEnd(s, i) - 3) \o <<StrongEnd>>])

\* the first position from i on that holds no "#"
SkipHashes(s, i) ==
  LET stops == {j \in i..Len(s) : s[j] # "#"}
  IN IF stops = {} THEN Len(s) + 1
     ELSE CHOOSE j \in stops : \A k \in stops : j <= k

\* a heading text that keeps its # run
HeadingTextWithHashes(s, i) ==
  LET h == SkipHashes(s, i)
  IN IF s[i] = "#" /\ h - i <= 6 /\ h <= Len(s) /\ IsSpace(s[h]) THEN i ELSE 0

\* #{1,6}\s(.*?)(?=\n|$): the position where the heading text starts, or 0.  The
\* pattern is not anchored: it matches wherever 1 to 6 "#" and a white space stand.
HeadingText(s, i) ==
  LET h == SkipHashes(s, i)
  IN IF s[i] = "#" /\ h - i <= 6 /\ h <= Len(s) /\ IsSpace(s[h]) THEN h + 1 ELSE 0

HeadingEnd(s, i) ==
  IF HeadingText(s, i) = 0 THEN 0 ELSE LineEnd(s, HeadingText(s, i))

ResolveHeadings(s) ==
  ReplaceAll(s, [i \in 1..Len(s) |-> HeadingEnd(s, i)],
                [i \in 1..Len(s) |->
                   IF HeadingEnd(s, i) = 0 THEN <<>>
                   ELSE <<Strong>> \o SubSeq(s, HeadingText(s, i), HeadingEnd(s, i) - 1)
                        \o <<StrongEnd>>])

\* ^\s*[-*+]\s(.+) with the m flag: the position where the item text starts, or 0
BulletText(s, i) ==
  LET p == SkipSpace(s, i)
  IN IF /\ AtLineStart(s, i)
        /\ p + 2 <= Len(s)
        /\ s[p] \in {"-", "*", "+"}
        /\ IsSpace(s[p + 1])
        /\ IsDot(s[p + 2])
     THEN p + 2 ELSE 0

BulletEnd(s, i) ==
  IF BulletText(s, i) = 0 THEN 0 ELSE LineEnd(s, BulletText(s, i))

TagUnordered(s) ==
  ReplaceAll(s, [i \in 1..Len(s) |-> BulletEnd(s, i)],
                [i \in 1..Len(s) |->
                   IF BulletEnd(s, i) = 0 THEN <<>>
                   ELSE <<ItemOpen, Bullet, " ">>
                        \o SubSeq(s, BulletText(s, i), BulletEnd(s, i) - 1)
                        \o <<ParaClose>>])

\* the first position from i on that holds no digit: where a greedy \d+ ends
SkipDigits(s, i) ==
  LET stops == {j \in i..Len(s) : ~IsDigit(s[j])}
  IN IF stops = {} THEN Len(s) + 1
     ELSE CHOOSE j \in stops : \A k \in stops : j <= k

\* ^\s*(\d+)\.\s(.+) with the m flag: the position of the "." after the numeral, or 0
NumeralDot(s, i) ==
  LET p == SkipSpace(s, i)
      d == SkipDigits(s, p)
  IN IF /\ AtLineStart(s, i)
        /\ d > p
        /\ d + 2 <= Len(s)
        /\ s[d] = "."
        /\ IsSpace(s[d + 1])
        /\ IsDot(s[d + 2])
     THEN d ELSE 0

NumberedEnd(s, i) ==
  IF NumeralDot(s, i) = 0 THEN 0 ELSE LineEnd(s, NumeralDot(s, i) + 2)

TagOrdered(s) ==
  ReplaceAll(s, [i \in 1..Len(s) |-> NumberedEnd(s, i)],
                [i \in 1..Len(s) |->
                   IF NumberedEnd(s, i) = 0 THEN <<>>
                   ELSE <<ItemOpen>>
                        \o SubSeq(s, SkipSpace(s, i), NumeralDot(s, i) - 1)
                        \o <<".", " ">>
                        \o SubSeq(s, NumeralDot(s, i) + 2, NumberedEnd(s, i) - 1)
                        \o <<ParaClose>>])

\* the first position from i on that holds c, or 0
Find(s, i, c) ==
  LET at == {j \in i..Len(s) : s[j] = c}
  IN IF at = {} THEN 0
     ELSE CHOOSE j \in at : \A k \in at : j <= k

\* the backtick (U+0060)
Backtick == "U+0060"

\* a backtick, one or more characters that are no backtick, a backtick
CodeEnd(s, i) ==
  IF s[i] = Backtick /\ Find(s, i + 1, Backtick) > i + 1
  THEN Find(s, i + 1, Backtick) + 1 ELSE 0

StripCode(s) ==
  ReplaceAll(s, [i \in 1..Len(s) |-> CodeEnd(s, i)],
                [i \in 1..Len(s) |->
                   IF CodeEnd(s, i) = 0 THEN <<>> ELSE SubSeq(s, i + 1, CodeEnd(s, i) - 2)])

\* \[([^\]]+)\]\([^)]+\): the position of the "]" that ends the label, or 0
LabelEnd(s, i) ==
  LET j == Find(s, i + 1, "]")
  IN IF /\ s[i] = "["
        /\ j > i + 1
        /\ j + 1 <= Len(s)
        /\ s[j + 1] = "("
        /\ Find(s, j + 2, ")") > j + 2
     THEN j ELSE 0

LinkEnd(s, i) ==
  IF LabelEnd(s, i) = 0 THEN 0 ELSE Find(s, LabelEnd(s, i) + 2, ")") + 1

\* a link replaced by its label with the target after it
LinksWithTarget(s) ==
  ReplaceAll(s, [i \in 1..Len(s) |-> LinkEnd(s, i)],
                [i \in 1..Len(s) |->
                   IF LinkEnd(s, i) = 0 THEN <<>>
                   ELSE SubSeq(s, i + 1, LabelEnd(s, i) - 1) \o <<" ">>
                          \o SubSeq(s, LabelEnd(s, i) + 1, LinkEnd(s, i) - 1)])

StripLinks(s) ==
  ReplaceAll(s, [i \in 1..Len(s) |-> LinkEnd(s, i)],
                [i \in 1..Len(s) |->
                   IF LinkEnd(s, i) = 0 THEN <<>> ELSE SubSeq(s, i + 1, LabelEnd(s, i) - 1)])

\* the first position from i on that holds no line terminator
SkipNewlines(s, i) ==
  LET stops == {j \in i..Len(s) : s[j] # "\n"}
  IN IF stops = {} THEN Len(s) + 1
     ELSE CHOOSE j \in stops : \A k \in stops : j <= k

\* \n\n+
BlankLinesEnd(s, i) ==
  IF HasAt(s, i, <<"\n", "\n">>) THEN SkipNewlines(s, i) ELSE 0

CollapseBlankLines(s) ==
  ReplaceAll(s, [i \in 1..Len(s) |-> BlankLinesEnd(s, i)],
                [i \in 1..Len(s) |-> <<"\n", "\n">>])

\* String.trim
Trim(s) ==
  LET keep == {j \in 1..Len(s) : ~IsSpace(s[j])}
      lo == CHOOSE j \in keep : \A k \in keep : j <= k
      hi == CHOOSE j \in keep : \A k \in keep : j >= k
  IN IF keep = {} THEN <<>> ELSE SubSeq(s, lo, hi)

\* lines 534-550: processedContent before the confidence line is looked for
ProcessedContent(content) ==
  LET t1 == StripDecorationRanges(StripFixedDecorations(content))
      t2 == RemoveBanner(RemoveBanner(t1, <<"AI", " ", "Root Cause Analysis">>),
                         <<"Root Cause Analysis">>)
      t3 == RemoveTrailers(t2)
      t4 == TagOrdered(TagUnordered(ResolveHeadings(ResolveBold(t3))))
  IN Trim(CollapseBlankLines(StripLinks(StripCode(t4))))

----------------------------------------------------------------------------
(* Stage 5: the confidence line (lines 552-565) *)

ConfidenceWord == <<"Confidence Level">>

\* (?:^|\n)\s*(?:\*\*)?Confidence Level with the i flag, from position i: the
\* position after the literal, or 0.  Both patterns of this stage start with it.
ConfidenceHead(s, i) ==
  LET a == IF i = 1 THEN 1 ELSE IF s[i] = "\n" THEN i + 1 ELSE 0
      p == SkipSpace(s, a)
      b == IF HasAt(s, p, Stars) THEN p + 2 ELSE p
  IN IF a # 0 /\ HasAtI(s, b, ConfidenceWord) THEN b + 1 ELSE 0

\* (?:\s*\(([^)]+)\))? from position y: the position of the ")" when the group
\* matches and (?:\n|$) follows it, or 0
PercentClose(s, y) ==
  LET w == SkipSpace(s, y)
      k == Find(s, w + 1, ")")
  IN IF /\ w <= Len(s)
        /\ s[w] = "("
        /\ k > w + 1
        /\ (k = Len(s) \/ s[k + 1] = "\n")
     THEN k ELSE 0

\* whether (?:\s*\(([^)]+)\))?(?:\n|$) matches from position y
TailMatches(s, y) ==
  \/ PercentClose(s, y) # 0
  \/ y > Len(s)
  \/ s[y] = "\n"

\* :?\s*([^(\n]*?)(?:\s*\(([^)]+)\))?(?:\n|$) from position c: the pairs <<x, y>>
\* of the position x where \s* ends and y where the level group ends, for which
\* the pattern matches
LevelSpans(s, c) ==
  LET c2 == IF c <= Len(s) /\ s[c] = ":" THEN c + 1 ELSE c
  IN {xy \in (c2..SkipSpace(s, c2)) \X (c2..(Len(s) + 1)) :
        /\ xy[1] <= xy[2]
        /\ \A j \in xy[1]..(xy[2] - 1) : s[j] \notin {"(", "\n"}
        /\ TailMatches(s, xy[2])}

\* the span the backtracking engine finds first: \s* is greedy, the level group lazy
FirstLevelSpan(s, c) ==
  CHOOSE xy \in LevelSpans(s, c) :
    \A uv \in LevelSpans(s, c) :
      xy[1] > uv[1] \/ (xy[1] = uv[1] /\ xy[2] <= uv[2])

\* String.match of the confidence pattern (no g flag): the groups of the first match,
\* trimmed as lines 555-556 trim them, or NoMatch
ConfidenceMatch(s) ==
  LET at == {i \in 1..Len(s) :
               ConfidenceHead(s, i) # 0 /\ LevelSpans(s, ConfidenceHead(s, i)) # {}}
      i0 == CHOOSE i \in at : \A k \in at : i <= k
      xy == FirstLevelSpan(s, ConfidenceHead(s, i0))
      k == PercentClose(s, xy[2])
  IN IF at = {} THEN NoMatch
     ELSE [matched |-> TRUE,
           level |-> Trim(SubSeq(s, xy[1], xy[2] - 1)),
           percentage |->
             IF k = 0 THEN NullText
             ELSE Trim(SubSeq(s, SkipSpace(s, xy[2]) + 1, k - 1))]

\* a percentage kept as written, % included
KeepPercentSign(t) == t

\* percentage.replace('%', ''): the first "%" only
WithoutPercentSign(t) ==
  IF Find(t, 1, "%") = 0 THEN t
  ELSE SubSeq(t, 1, Find(t, 1, "%") - 1) \o From(t, Find(t, 1, "%") + 1)

\* lines 558-562: the text of the badge
ConfidenceLevel(m) ==
  IF ~m.matched THEN NullText
  ELSE IF m.percentage # NullText /\ m.percentage # <<>>
    THEN m.level \o <<" ", "(">> \o WithoutPercentSign(m.percentage) \o <<"%", ")">>
  ELSE m.level

\* (?:^|\n)\s*(?:\*\*)?Confidence Level:?.*?(?:\n|$) with the g and i flags
ConfidenceLineEnd(s, i) ==
  IF ConfidenceHead(s, i) = 0 THEN 0 ELSE AfterLine(s, ConfidenceHead(s, i))

\* the removal without the g flag: the first confidence line only
RemoveFirstConfidenceLine(s) ==
  LET at == {i \in 1..Len(s) : ConfidenceLineEnd(s, i) # 0}
      i0 == CHOOSE i \in at : \A k \in at : i <= k
  IN IF at = {} THEN s
     ELSE SubSeq(s, 1, i0 - 1) \o <<"\n">> \o From(s, ConfidenceLineEnd(s, i0))

\* line 564
RemoveConfidenceLines(s) ==
  ReplaceAll(s, [i \in 1..Len(s) |-> ConfidenceLineEnd(s, i)],
                [i \in 1..Len(s) |-> <<"\n">>])

----------------------------------------------------------------------------
(* Stage 6: paragraphs (lines 567-578) *)

\* a split at every line break instead of at blank lines
SplitAtEveryLine(s) ==
  LET f[i \in 1..(Len(s) + 1)] ==
        IF LineEnd(s, i) > Len(s) THEN <<SubSeq(s, i, Len(s))>>
        ELSE <<SubSeq(s, i, LineEnd(s, i) - 1)>> \o f[LineEnd(s, i) + 1]
  IN f[1]

\* String.split('\n\n')
Split(s) ==
  LET f[i \in 1..(Len(s) + 2)] ==
        LET at == {j \in i..Len(s) : HasAt(s, j, <<"\n", "\n">>)}
            j0 == CHOOSE j \in at : \A k \in at : j <= k
        IN IF at = {} THEN <<SubSeq(s, i, Len(s))>>
           ELSE <<SubSeq(s, i, j0 - 1)>> \o f[j0 + 2]
  IN f[1]

\* Array.join('')
Join(ps) ==
  LET f[i \in 1..(Len(ps) + 1)] ==
        IF i > Len(ps) THEN <<>> ELSE ps[i] \o f[i + 1]
  IN f[1]

\* line 571: a paragraph that starts with a list item is filtered out
StartsWithItem(p) == Len(p) >= 1 /\ p[1] = ItemOpen

\* lines 572-577
Wrap(p) ==
  IF \E j \in 1..Len(p) : p[j] = ItemOpen THEN p
  ELSE <<ParaOpen>> \o p \o <<ParaClose>>

\* the paragraphs without the filter on the length (line 570)
ParagraphsWithEmpty(s) ==
  LET split == Split(s)
      trimmed == [i \in 1..Len(split) |-> Trim(split[i])]
      f[i \in 1..(Len(split) + 1)] ==
        IF i > Len(split) THEN <<>>
        ELSE IF ~StartsWithItem(trimmed[i])
          THEN <<Wrap(trimmed[i])>> \o f[i + 1]
        ELSE f[i + 1]
  IN f[1]

\* lines 567-577: the array that line 578 joins
Paragraphs(s) ==
  LET split == Split(s)
      trimmed == [i \in 1..Len(split) |-> Trim(split[i])]
      f[i \in 1..(Len(split) + 1)] ==
        IF i > Len(split) THEN <<>>
        ELSE IF Len(trimmed[i]) > 0 /\ ~StartsWithItem(trimmed[i])
          THEN <<Wrap(trimmed[i])>> \o f[i + 1]
        ELSE f[i + 1]
  IN f[1]

\* a fallback that wraps the raw text when no paragraph comes out
MainContentWithFallback(s) ==
  IF Paragraphs(s) = <<>> THEN <<ParaOpen>> \o s \o <<ParaClose>>
  ELSE Join(Paragraphs(s))

MainContent(s) == Join(Paragraphs(s))

----------------------------------------------------------------------------
(* The comments the page is given *)

MaxLines == 3

\* the words of the lines, one per line, so that the order of the lines shows
Word(k) == IF k = 1 THEN "w1" ELSE IF k = 2 THEN "w2" ELSE IF k = 3 THEN "w3" ELSE "w4"

\* the comments of the renderer's documented cases
ListSample ==
  <<"-", " ", "first", "\n", "-", " ", "second", "\n", "\n",
    "1", ".", " ", "one", "\n", "2", ".", " ", "two">>

ConfidenceHigh == <<"Confidence Level", ":", " ", "High", " ", "(", "8", "2", "%", ")">>

ConfidenceMedium == <<"Confidence Level", ":", " ", "Medium">>

HighSample == ConfidenceHigh \o <<"\n", "\n", "Body", " ", "text">>

MediumSample == ConfidenceMedium \o <<"\n", "\n", "Body">>

AIBanner == <<"*", "*", "AI", " ", "Root Cause Analysis", "*", "*">>

MethodLine == <<"Analysis method:", " ", "pattern-based">>

BannerSample ==
  AIBanner \o <<"\n", "\n", "Real", " ", "content", "\n", "\n">>
    \o Dashes \o <<"\n">> \o MethodLine

BoldHeadingSample ==
  <<"*", "*", "Important", "*", "*", "\n", "\n", "#", " ", "Heading", "\n", "Tail">>

BoldConfidenceSample ==
  <<"*", "*">> \o ConfidenceHigh \o <<"*", "*", "\n", "\n", "Body">>

\* a banner (bold or not, with or without "AI "), content, a rule and a trailer, the
\* parts one or two line terminators apart
BannerTexts ==
  LET seps == {<<"\n">>, <<"\n", "\n">>}
      banners == {AIBanner, <<"AI", " ", "Root Cause Analysis">>,
                  <<"*", "*", "Root Cause Analysis", "*", "*">>,
                  <<"root cause analysis">>}
  IN {b \o s1 \o <<"Real", " ", "content">> \o s2 \o Dashes \o <<"\n">> \o MethodLine :
        b \in banners, s1 \in seps, s2 \in seps}

\* decorations: in the fixed list or not, in the ranges or not, BMP or surrogate pairs
DecoratedTexts ==
  {<<"U+2705", " ", "Done">>, <<"U+2B50", " ", "Done">>, <<"U+2600", " ", "Done">>,
   <<"U+26A0", "U+FE0F", " ", "Done">>, <<"U+2B55", " ", "Done">>,
   <<"U+231A", " ", "Done">>, <<"U+D83C", "U+DFAF", " ", "Done">>,
   <<"U+D83D", "U+DE80", " ", "Done">>, <<"U+D83D", "U+DE00", " ", "Done">>,
   <<"U+D83E", "U+DD14", " ", "Done">>}

\* lines with markup that is not closed: a ** without its partner, one code fence
\* character, a link without its target
MalformedLines ==
  { <<"*", "*", "open">>,
    <<"open", " ", "*", "*", "bold">>,
    <<"open", "*", "*">>,
    <<"*", "*">>,
    <<"U+0060", "code">>,
    <<"some", " ", "U+0060", "code">>,
    <<"[", "label", "]", "(", "u">>,
    <<"[", "label", "]">>,
    <<"[", "label", "]", "(", ")">>,
    <<"see", " ", "[", "label">> }

\* a malformed line alone, or with a line of prose before or after it, one or two line
\* terminators apart; and two lines that each open a bold span
MalformedTexts ==
  LET seps == {<<"\n">>, <<"\n", "\n">>}
  IN MalformedLines
       \cup {<<"Before">> \o s \o l : s \in seps, l \in MalformedLines}
       \cup {l \o s \o <<"After">> : s \in seps, l \in MalformedLines}
       \cup {<<"*", "*", "open">> \o s \o <<"shut", "*", "*">> : s \in seps}

\* lines with code spans and links inside other markup, side by side, one in the other
InlineTexts ==
  { <<"see", " ", "[", "label", "]", "(", "u", ")", " ", "and", " ",
      "[", "other", "]", "(", "u", ")">>,
    <<"*", "*", "[", "label", "]", "(", "u", ")", "*", "*">>,
    <<"Intro", "\n", "-", " ", "[", "label", "]", "(", "u", ")">>,
    <<"Intro", "\n", "1", ".", " ", "U+0060", "code", "U+0060">>,
    <<"U+0060", "code", "U+0060", "U+0060", "more", "U+0060">>,
    <<"#", " ", "U+0060", "code", "U+0060">>,
    <<"U+0060", "[", "label", "]", "(", "u", ")", "U+0060">>,
    <<"[", "U+0060", "code", "U+0060", "]", "(", "u", ")">>,
    <<"U+0060", "code", "\n", "more", "U+0060">>,
    <<"[", "label", "]", "(", "u", ")", "\n", "\n", "[", "other", "]", "(", "u", ")">> }

\* list lines with each of the three bullets and with numerals that do not start at 1
ListTexts ==
  { <<"*", " ", "item">>,
    <<"+", " ", "item">>,
    <<"3", ".", " ", "item">>,
    <<"Intro", "\n", "*", " ", "item">>,
    <<"Intro", "\n", "+", " ", "item">>,
    <<"Intro", "\n", "3", ".", " ", "item", "\n", "4", ".", " ", "next">>,
    <<"Intro", "\n", "\n", "3", ".", " ", "item">> }

\* two paragraphs with a banner line between them, a blank line on either side of it
BannerBetween ==
  {<<"First", "\n", "\n">> \o b \o <<"\n", "\n", "Second">> :
     b \in {AIBanner, <<"AI", " ", "Root Cause Analysis">>,
            <<"*", "*", "Root Cause Analysis", "*", "*">>, <<"Root Cause Analysis">>}}

\* two paragraphs a blank line apart, with a confidence line directly above, directly
\* below or between them
ConfidenceBetween ==
  {c \o <<"\n", "First", "\n", "\n", "Second">> : c \in {ConfidenceHigh, ConfidenceMedium}}
    \cup {<<"First", "\n", "\n", "Second", "\n">> \o c : c \in {ConfidenceHigh, ConfidenceMedium}}
    \cup {<<"First", "\n">> \o c \o <<"\n", "\n", "Second">> :
            c \in {ConfidenceHigh, ConfidenceMedium}}
    \cup {<<"First", "\n", "\n">> \o c \o <<"\n", "Second">> :
            c \in {ConfidenceHigh, ConfidenceMedium}}
    \cup {<<"First", "\n", "\n">> \o c \o <<"\n", "\n", "Second">> :
            c \in {ConfidenceHigh, ConfidenceMedium}}

\* rule lines between two paragraphs, and trailer lines: alone on their line, in
\* emphasis, after a rule on the same line, after words
TrailerTexts ==
  {<<"First", "\n", "\n">> \o r \o <<"\n", "\n", "Second">> :
     r \in {Dashes, Dashes \o <<"-", "-">>, Dashes \o <<" ", "note">>,
            Dashes \o <<"note">>}}
    \cup { <<"First", "\n", "\n">> \o Dashes \o <<" ">> \o MethodLine,
           <<"First", "\n", "*">> \o MethodLine \o <<"*">>,
           <<"First", "\n", "\n">> \o MethodLine \o <<"\n", "\n", "Second">>,
           <<"Note", " ">> \o MethodLine \o <<"\n", "Next">>,
           <<"Intro", " ">> \o Dashes \o <<" ">> \o MethodLine \o <<"\n", "Next">> }

\* comments that hold markup of their own: each tag is one token, ordinary characters
\* to every pattern of the pipeline
RawTags == {"<script>", "</script>", "<img src=x onerror=alert(1)>", "<b>", "</b>"}

RawMarkupTexts ==
  { <<"<script>", "alert", "</script>">>,
    <<"Hello", " ", "<img src=x onerror=alert(1)>">>,
    <<"Some", " ", "<b>", "bold", "</b>", "\n", "\n", "Next">> }

\* a banner line with a pictograph the first stage removes (U+1F916, U+1F3AF, U+2705)
\* before or after it, outside or inside the bold markers, and a body
DecoratedBanners ==
  LET picts == {<<"U+D83E", "U+DD16">>, <<"U+D83C", "U+DFAF">>, <<"U+2705">>}
      texts == {<<"AI", " ", "Root Cause Analysis">>, <<"Root Cause Analysis">>}
      body == <<"\n", "\n", "Body">>
  IN UNION {
       { p \o <<" ">> \o t \o body,
         t \o <<" ">> \o p \o body,
         p \o <<" ">> \o Stars \o t \o Stars \o body,
         Stars \o t \o Stars \o <<" ">> \o p \o body,
         Stars \o p \o <<" ">> \o t \o Stars \o body,
         Stars \o t \o <<" ">> \o p \o Stars \o body } : p \in picts, t \in texts }

\* a "#" and a space inside a line, after other words
MidLineHashTexts ==
  { <<"Issue", " ", "#", " ", "five", " ", "is", " ", "open">>,
    <<"See", " ", "#", "#", " ", "notes">>,
    <<"Intro", "\n", "Item", " ", "#", " ", "two">> }

Samples ==
  {ListSample, HighSample, MediumSample, BannerSample, BoldHeadingSample,
   BoldConfidenceSample} \cup BannerTexts \cup DecoratedTexts \cup MalformedTexts
    \cup InlineTexts \cup ListTexts \cup BannerBetween \cup ConfidenceBetween
    \cup TrailerTexts \cup RawMarkupTexts \cup DecoratedBanners \cup MidLineHashTexts

\* the kinds of line of an assistant's comment, each about the word w
LineKinds(w) ==
  { <<>>,
    <<w>>,
    <<"*", "*", w, "*", "*">>,
    <<"#", " ", w>>,
    <<"-", " ", w>>,
    <<"1", ".", " ", w>>,
    <<"U+2705", " ", w>>,
    <<"U+0060", w, "U+0060", " ", "[", "x", "]", "(", "u", ")">>,
    AIBanner,
    <<"Root Cause Analysis">>,
    Dashes,
    <<"Analysis method:", " ", w>>,
    ConfidenceHigh,
    ConfidenceMedium }

\* the texts of n lines, the k-th about Word(k), joined by line terminators
Texts(n) ==
  LET f[k \in 0..n] ==
        IF k = 0 THEN {<<>>}
        ELSE IF k = 1 THEN LineKinds(Word(1))
        ELSE {t \o <<"\n">> \o l : t \in f[k - 1], l \in LineKinds(Word(k))}
  IN f[n]

MaxPlain == 5

\* the texts of at most n words, spaces and line terminators: plain text
PlainTexts(n) ==
  LET f[k \in 0..n] ==
        IF k = 0 THEN {<<>>}
        ELSE f[k - 1] \cup {t \o <<c>> : t \in f[k - 1], c \in {"w1", " ", "\n"}}
  IN f[n]

Contents == UNION {Texts(n) : n \in 0..MaxLines} \cup PlainTexts(MaxPlain) \cup Samples

\* author_info of a comment (types.ts lines 24-32, 108): absent (both fields Null), a
\* human, or a system user of some type
AuthorInfos ==
  { [actor_type |-> Null, system_user_type |-> Null],
    [actor_type |-> "human", system_user_type |-> Null],
    [actor_type |-> "system", system_user_type |-> "ci_automation"],
    [actor_type |-> "system", system_user_type |-> "ai_assistant"] }

\* any system actor, whatever its system_user_type
isSystemComment(c) == c.author_info.actor_type = "system"

\* comment.author_info?.system_user_type === 'ai_assistant'
isAIAssistantComment(c) ==
  c.author_info.system_user_type = "ai_assistant"

----------------------------------------------------------------------------
(* The parts of the application at rest: their state after construction *)

\* auth.ts lines 20-23
InitialAuthState ==
  [user |-> Null, isAuthenticated |-> FALSE, isLoading |-> FALSE, isInitialized |-> FALSE]

\* localStorage without access_token and refresh_token
NoTokens == [access_token |-> Null, refresh_token |-> Null]

MaxCalls == 2

\* the calls of the store's async actions: the one of Providers (0) and MaxCalls more
CallIds == 0..MaxCalls

NoCall == [kind |-> "none", pc |-> "idle", response |-> "none"]

\* what a login call saw of the store and of localStorage when it was made
NoSnapshot == [user |-> Null, isAuthenticated |-> FALSE, tokens |-> NoTokens]

AuthAtRest ==
  /\ auth = InitialAuthState
  /\ tokens = NoTokens
  /\ calls = [c \in CallIds |-> NoCall]
  /\ atCall = [c \in CallIds |-> NoSnapshot]
  /\ loggedOut = FALSE
  /\ mounted = FALSE

\* part_001 lines 21-28, before any data has come
InitialTickets ==
  [activeTab |-> "all", searchQuery |-> "", debouncedSearchQuery |-> "",
   statusFilter |-> "all", priorityFilter |-> "all", currentPage |-> 1,
   timer |-> Null, totalPages |-> 0]

\* no chat session: currentSession null
NoSession == 0

\* ai-chat.tsx lines 31-41, before any query has answered: sessions undefined,
\* which every condition of the component treats as the empty list; with the
\* number of chat sessions the server has of the ticket, the last event and
\* whether "Start new chat" was the last choice of a session
InitialChat ==
  [isOpen |-> FALSE, currentSession |-> NoSession, sessions |-> <<>>, content |-> "",
   pending |-> "none", server |-> 0, last |-> "none", newChat |-> FALSE]

PageAtRest ==
  /\ comment = [content |-> <<>>,
                author_info |-> [actor_type |-> Null, system_user_type |-> Null]]
  /\ pc = "fetched"
  /\ confidence = NoMatch
  /\ confidenceLevel = NullText
  /\ mainContent = NullText
  /\ shown = NullText

----------------------------------------------------------------------------
(* The page *)

Init ==
  /\ comment \in [content : Contents, author_info : AuthorInfos]
  /\ pc = "fetched"
  /\ confidence = NoMatch
  /\ confidenceLevel = NullText
  /\ mainContent = NullText
  /\ shown = NullText
  /\ AuthAtRest /\ tickets = InitialTickets /\ chat = InitialChat

\* lines 515-595: the comment of the AI assistant
RenderAIComment ==
  /\ pc = "fetched"
  /\ isAIAssistantComment(comment)
  /\ LET processedContent == ProcessedContent(comment.content)
         confidenceMatch == ConfidenceMatch(processedContent)
     IN /\ confidence' = confidenceMatch
        /\ confidenceLevel' = ConfidenceLevel(confidenceMatch)
        /\ mainContent' =
             MainContent(IF ~confidenceMatch.matched THEN processedContent
                         ELSE RemoveConfidenceLines(processedContent))
  /\ shown' = NullText
  /\ pc' = "rendered"
  /\ UNCHANGED <<comment, authVars, tickets, chat>>

\* lines 598-625: any other comment
RenderComment ==
  /\ pc = "fetched"
  /\ ~isAIAssistantComment(comment)
  /\ shown' = comment.content
  /\ pc' = "rendered"
  /\ UNCHANGED <<comment, confidence, confidenceLevel, mainContent, authVars, tickets, chat>>

Next == RenderAIComment \/ RenderComment

Spec == Init /\ [][Next]_vars

----------------------------------------------------------------------------
(* What the claims speak of *)

Rendered == pc = "rendered"

\* the comment's author is flagged as the AI assistant
FlaggedAI == comment.author_info.system_user_type = "ai_assistant"

RenderedByPipeline == Rendered /\ FlaggedAI

\* how often the token c stands in the text s
Count(s, c) == Cardinality({j \in 1..Len(s) : s[j] = c})

\* whether the tokens sub stand somewhere in s, side by side
Occurs(s, sub) == \E i \in 1..Len(s) : HasAt(s, i, sub)

\* the lines of a text
LinesOf(s) ==
  LET f[i \in 1..(Len(s) + 1)] ==
        IF LineEnd(s, i) > Len(s) THEN <<SubSeq(s, i, Len(s))>>
        ELSE <<SubSeq(s, i, LineEnd(s, i) - 1)>> \o f[LineEnd(s, i) + 1]
  IN f[1]

\* the contents of the list-item blocks of the rendered markup, in order
ItemsOf(s) ==
  LET f[i \in 1..(Len(s) + 1)] ==
        IF i > Len(s) THEN <<>>
        ELSE IF s[i] = ItemOpen /\ Find(s, i, ParaClose) # 0
          THEN <<SubSeq(s, i + 1, Find(s, i, ParaClose) - 1)>> \o f[Find(s, i, ParaClose) + 1]
        ELSE f[i + 1]
  IN f[1]

\* the contents of the paragraph blocks of the rendered markup, in order
ParagraphsOf(s) ==
  LET f[i \in 1..(Len(s) + 1)] ==
        IF i > Len(s) THEN <<>>
        ELSE IF s[i] = ParaOpen /\ Find(s, i, ParaClose) # 0
          THEN <<SubSeq(s, i + 1, Find(s, i, ParaClose) - 1)>> \o f[Find(s, i, ParaClose) + 1]
        ELSE f[i + 1]
  IN f[1]

\* a list line: a bullet or a numeral with a dot, a space and text
IsListLine(l) ==
  \/ Len(l) >= 3 /\ l[1] \in {"-", "*", "+"} /\ l[2] = " "
  \/ Len(l) >= 4 /\ IsDigit(l[1]) /\ l[2] = "." /\ l[3] = " "

ListLineCount(s) == Cardinality({k \in 1..Len(LinesOf(s)) : IsListLine(LinesOf(s)[k])})

----------------------------------------------------------------------------
(* The claims *)

\* C1 (as claimed): the list sample renders as four list-item blocks, two unordered then
\* two ordered with the numerals 1 and 2, in order; and every list line of a comment
\* gives exactly one list-item block.
C1_ListFidelity ==
  RenderedByPipeline =>
    /\ comment.content = ListSample =>
         ItemsOf(mainContent) =
           << <<Bullet, " ", "first">>, <<Bullet, " ", "second">>,
              <<"1", ".", " ", "one">>, <<"2", ".", " ", "two">> >>
    /\ Len(ItemsOf(mainContent)) = ListLineCount(comment.content)

\* C3: a banner line, content, a rule line and a trailer line render as exactly one
\* paragraph that holds the content, and nothing of the banner or the trailer is left.
C3_BannerAndTrailerStripped ==
  RenderedByPipeline /\ comment.content \in BannerTexts =>
    /\ mainContent = <<ParaOpen, "Real", " ", "content", ParaClose>>
    /\ ~confidence.matched

C3_Witness ==
  /\ RenderedByPipeline
  /\ comment.content = BannerSample
  /\ mainContent = <<ParaOpen, "Real", " ", "content", ParaClose>>

\* C5: only a comment flagged as the AI assistant's goes through the pipeline; any other
\* comment, one without author info included, is shown as its raw content.
C5_NonAIBypass ==
  Rendered =>
    /\ FlaggedAI => shown = NullText /\ mainContent # NullText
    /\ ~FlaggedAI =>
         /\ shown = comment.content
         /\ mainContent = NullText
         /\ confidenceLevel = NullText
         /\ ~confidence.matched

C5_Witness ==
  /\ Rendered
  /\ comment.author_info.system_user_type = "ci_automation"
  /\ comment.content = BannerSample
  /\ shown = BannerSample
  /\ mainContent = NullText

\* C10: the bold paragraph and the heading followed by a line render as two paragraphs,
\* the second holding the emphasised heading and the line after it; a bold span and a
\* heading line always end up as emphasis markup around their text.
C10_BoldAndHeading ==
  RenderedByPipeline =>
    /\ comment.content = BoldHeadingSample =>
         mainContent =
           <<ParaOpen, Strong, "Important", StrongEnd, ParaClose,
             ParaOpen, Strong, "Heading", StrongEnd, "\n", "Tail", ParaClose>>
    /\ \A k \in 1..MaxLines :
         /\ \/ Occurs(comment.content, <<"*", "*", Word(k), "*", "*">>)
            \/ Occurs(comment.content, <<"#", " ", Word(k)>>)
         => \A j \in 1..Len(mainContent) :
              mainContent[j] = Word(k) =>
                /\ j > 1 /\ mainContent[j - 1] = Strong
                /\ j < Len(mainContent) /\ mainContent[j + 1] = StrongEnd

C10_Witness ==
  /\ RenderedByPipeline
  /\ comment.content = BoldHeadingSample
  /\ ParagraphsOf(mainContent) =
       << <<Strong, "Important", StrongEnd>>,
          <<Strong, "Heading", StrongEnd, "\n", "Tail">> >>

\* the confidence lines of a text, by line number
ConfidenceLines(s) ==
  {k \in 1..Len(LinesOf(s)) : LinesOf(s)[k] \in {ConfidenceHigh, ConfidenceMedium}}

FirstConfidenceIndex(s) ==
  CHOOSE k \in ConfidenceLines(s) : \A j \in ConfidenceLines(s) : k <= j

FirstConfidenceLine(s) == LinesOf(s)[FirstConfidenceIndex(s)]

HighBadge == <<"High", " ", "(", "8", "2", "%", ")">>

\* C2: of a comment with a line "Confidence Level: <level> (<percentage>%)" or
\* "Confidence Level: <level>", the confidence is the level and the percentage without
\* its % sign (none without the parenthesis), taken from the first such line, and a
\* comment's only confidence line is in no block; the two documented samples render
\* as documented.
C2_ConfidenceExtracted ==
  RenderedByPipeline /\ ConfidenceLines(comment.content) # {} =>
    /\ confidence.matched
    /\ FirstConfidenceLine(comment.content) = ConfidenceHigh =>
         /\ confidence.level = <<"High">>
         /\ confidence.percentage = <<"8", "2", "%">>
         /\ confidenceLevel = HighBadge
    /\ FirstConfidenceLine(comment.content) = ConfidenceMedium =>
         /\ confidence.level = <<"Medium">>
         /\ confidence.percentage = NullText
         /\ confidenceLevel = <<"Medium">>
    /\ Cardinality(ConfidenceLines(comment.content)) = 1 =>
         Count(mainContent, "Confidence Level") = 0
    /\ comment.content = HighSample =>
         mainContent = <<ParaOpen, "Body", " ", "text", ParaClose>>
    /\ comment.content = MediumSample =>
         mainContent = <<ParaOpen, "Body", ParaClose>>

C2_Witness ==
  /\ RenderedByPipeline
  /\ comment.content = HighSample
  /\ confidenceLevel = HighBadge
  /\ mainContent = <<ParaOpen, "Body", " ", "text", ParaClose>>

\* plain text: words, spaces and line terminators only
IsPlain(s) ==
  \A j \in 1..Len(s) : s[j] \in {" ", "\n"} \cup {Word(k) : k \in 1..(MaxLines + 1)}

\* C4 (as claimed): plain text that is not blank renders as a single paragraph that
\* holds the text trimmed, with no confidence.
C4_PlainTextIsOneParagraph ==
  RenderedByPipeline /\ IsPlain(comment.content) /\ Trim(comment.content) # <<>> =>
    /\ mainContent = <<ParaOpen>> \o Trim(comment.content) \o <<ParaClose>>
    /\ ~confidence.matched
    /\ confidenceLevel = NullText

\* C4 (amended): the same of plain text that holds no blank line.
C4_PlainTextWithoutBlankLine ==
  /\ RenderedByPipeline
  /\ IsPlain(comment.content)
  /\ Trim(comment.content) # <<>>
  /\ ~Occurs(Trim(comment.content), <<"\n", "\n">>)
  => /\ mainContent = <<ParaOpen>> \o Trim(comment.content) \o <<ParaClose>>
     /\ ~confidence.matched
     /\ confidenceLevel = NullText

C4_Witness ==
  /\ RenderedByPipeline
  /\ comment.content = <<"\n", "w1", "\n", " ", "w1">>
  /\ mainContent = <<ParaOpen, "w1", "\n", " ", "w1", ParaClose>>

\* the words of the comments
Words ==
  {Word(k) : k \in 1..(MaxLines + 1)}
    \cup {"first", "second", "one", "two", "Body", "text", "Real", "content",
          "Important", "Heading", "Tail", "Done", "x"}

NoiseTokens == {"Root Cause Analysis", "root cause analysis", "Analysis method:",
                "Confidence Level"}

\* the words of a text, in order
WordsOf(s) ==
  LET f[i \in 1..(Len(s) + 1)] ==
        IF i > Len(s) THEN <<>>
        ELSE IF s[i] \in Words THEN <<s[i]>> \o f[i + 1]
        ELSE f[i + 1]
  IN f[1]

\* the words of the lines of a text that are no trailer lines, in order
ContentWordsOf(s) ==
  LET f[k \in 1..(Len(LinesOf(s)) + 1)] ==
        IF k > Len(LinesOf(s)) THEN <<>>
        ELSE IF Count(LinesOf(s)[k], "Analysis method:") > 0 THEN f[k + 1]
        ELSE WordsOf(LinesOf(s)[k]) \o f[k + 1]
  IN f[1]

\* C6 (as claimed): the blocks hold the content of every line that is no banner,
\* trailer, rule or confidence line, in the order of the comment, and nothing of a
\* banner, trailer or confidence line.
C6_OrderAndNoise ==
  RenderedByPipeline =>
    /\ WordsOf(mainContent) = ContentWordsOf(comment.content)
    /\ \A j \in 1..Len(mainContent) : mainContent[j] \notin NoiseTokens

\* the pictographs among the code units of the comments
IsPictograph(c) ==
  c \in {"U+2705", "U+26A0", "U+2B50", "U+2600", "U+2728", "U+2B55", "U+231A"}

\* C7 (as claimed): no pictograph is left in the rendered markup, neither a BMP one nor
\* a surrogate pair.
C7_NoPictographSurvives ==
  RenderedByPipeline =>
    \A j \in 1..Len(mainContent) :
      /\ ~IsPictograph(mainContent[j])
      /\ ~(/\ j < Len(mainContent)
           /\ IsHighSurrogate(mainContent[j])
           /\ IsLowSurrogate(mainContent[j + 1]))

\* a text of words, blank lines and confidence lines only
IsProseAndConfidence(s) ==
  \A k \in 1..Len(LinesOf(s)) :
    \/ LinesOf(s)[k] \in {<<>>, ConfidenceHigh, ConfidenceMedium}
    \/ IsPlain(LinesOf(s)[k])

HasNoBannerOrTrailer(s) ==
  /\ Count(s, "Root Cause Analysis") = 0
  /\ Count(s, "root cause analysis") = 0
  /\ Count(s, "Analysis method:") = 0

\* no confidence line directly follows another
NoAdjacentConfidenceLines(s) ==
  \A k \in ConfidenceLines(s) : k + 1 \notin ConfidenceLines(s)

C9_BoldConfidenceRecognised ==
  RenderedByPipeline /\ comment.content = BoldConfidenceSample =>
    /\ confidence.matched
    /\ confidence.level = <<"High">>
    /\ confidenceLevel = HighBadge
    /\ Count(mainContent, "Confidence Level") = 0

\* every opening tag of the rendered text has its closing tag
TagsBalanced(s) == Count(s, ParaOpen) + Count(s, ItemOpen) = Count(s, ParaClose)

\* C11: on every comment of the assistant the pipeline ends with a result: a confidence
\* or none, and text whose paragraphs and items are closed; the empty comment gives no
\* confidence and no block.
C11_NeverFails ==
  RenderedByPipeline =>
    /\ confidence.matched <=> confidenceLevel # NullText
    /\ ~confidence.matched => confidence = NoMatch
    /\ TagsBalanced(mainContent)
    /\ comment.content = <<>> => ~confidence.matched /\ mainContent = <<>>

C11_Witness == RenderedByPipeline /\ comment.content = <<>> /\ mainContent = <<>>

\* the tokens of s but the paragraph tags and the line terminators
LiteralOf(s) ==
  LET Kept(c) == c \notin {ParaOpen, ParaClose, "\n"}
  IN SelectSeq(s, Kept)

\* C12: markup that is not closed stays in the output as it was written: every token of
\* the comment is in the paragraphs, in order, and none is inside emphasis markup.
C12_MalformedStaysLiteral ==
  RenderedByPipeline /\ comment.content \in MalformedTexts
  => /\ LiteralOf(mainContent) = LiteralOf(comment.content)
     /\ Count(mainContent, Strong) = 0
     /\ Count(mainContent, ItemOpen) = 0
     /\ mainContent[1] = ParaOpen /\ mainContent[Len(mainContent)] = ParaClose

C12_Witness ==
  /\ RenderedByPipeline
  /\ comment.content = <<"Before", "\n", "*", "*", "open">>
  /\ mainContent = <<ParaOpen, "Before", "\n", "*", "*", "open", ParaClose>>

\* what the page shows of the content c of a comment of the assistant
RenderingOf(c) ==
  LET processedContent == ProcessedContent(c)
  IN MainContent(IF ~ConfidenceMatch(processedContent).matched THEN processedContent
                 ELSE RemoveConfidenceLines(processedContent))

\* the text with every run of blank lines cut down to one blank line
Squeeze(s) ==
  LET f[i \in 1..(Len(s) + 1)] ==
        IF i > Len(s) THEN <<>>
        ELSE IF HasAt(s, i, <<"\n", "\n", "\n">>) THEN f[i + 1]
        ELSE <<s[i]>> \o f[i + 1]
  IN f[1]

\* the words of a plain text that stand first in it or first after a blank line
BlockStarts(s) ==
  LET isWord(j) == s[j] \notin {" ", "\n"}
      prev(i) == {j \in 1..(i - 1) : isWord(j)}
      last(i) == CHOOSE j \in prev(i) : \A k \in prev(i) : k <= j
  IN {i \in 1..Len(s) :
        /\ isWord(i)
        /\ prev(i) = {} \/ Occurs(SubSeq(s, last(i) + 1, i - 1), <<"\n", "\n">>)}

\* no block of the rendered text is empty or starts with white space
NoEmptyBlock(s) ==
  \A i \in 1..Len(s) :
    s[i] \in {ParaOpen, ItemOpen} => i < Len(s) /\ s[i + 1] \notin {ParaClose, " ", "\n"}

\* C14: a run of blank lines counts as one blank line (the comment renders as it does
\* with every run cut down to one), plain text gives one block per stretch of words
\* between blank lines, and no block is empty.
C14_BlankRunsAndNoEmptyBlock ==
  RenderedByPipeline =>
    /\ NoEmptyBlock(mainContent)
    /\ Occurs(comment.content, <<"\n", "\n", "\n">>)
         => mainContent = RenderingOf(Squeeze(comment.content))
    /\ IsPlain(comment.content)
         => Len(ParagraphsOf(mainContent)) = Cardinality(BlockStarts(comment.content))

C14_Witness ==
  /\ RenderedByPipeline
  /\ comment.content = <<"w1", "\n", "\n", "\n", "w1">>
  /\ mainContent = <<ParaOpen, "w1", ParaClose, ParaOpen, "w1", ParaClose>>

\* the line made of a code span about w and a link
CodeAndLinkLine(w) ==
  <<"U+0060", w, "U+0060", " ", "[", "x", "]", "(", "u", ")">>

\* the words inside the code spans and the labels of InlineTexts
InlineWords == {"label", "other", "code", "more"}

\* C15: of a comment whose code spans and links are all closed, the output holds no
\* code fence character, no bracket of a link and no target; the words of the spans
\* and the labels are in it, a code-and-link line reading as its word and its label.
C15_CodeAndLinksFinished ==
  RenderedByPipeline /\ comment.content \notin MalformedTexts
  => /\ Count(mainContent, Backtick) = 0
     /\ Count(mainContent, "[") = 0
     /\ Count(mainContent, "]") = 0
     /\ Count(mainContent, "u") = 0
     /\ comment.content \in InlineTexts =>
          \A w \in InlineWords : Count(mainContent, w) = Count(comment.content, w)
     /\ \A k \in 1..Len(LinesOf(comment.content)) :
          LinesOf(comment.content)[k] = CodeAndLinkLine(Word(k)) =>
            \A i \in 1..Len(mainContent) :
              mainContent[i] = Word(k) => HasAt(mainContent, i, <<Word(k), " ", "x">>)

C15_Witness ==
  /\ RenderedByPipeline
  /\ comment.content = CodeAndLinkLine("w1")
  /\ mainContent = <<ParaOpen, "w1", " ", "x", ParaClose>>

\* the words the list lines of the comments are about
ItemWords == {Word(k) : k \in 1..(MaxLines + 1)} \cup {"first", "second", "one", "two", "item", "next"}

\* a list line about one word
IsSimpleListLine(l) == IsListLine(l) /\ l[Len(l)] \in ItemWords /\ Len(l) <= 4

\* the list-item block the claim gives the simple list line l: the bullet glyph before
\* the text, or the numeral as written
ExpectedItem(l) ==
  IF l[1] \in {"-", "*", "+"} THEN <<ItemOpen, Bullet, " ", l[3], ParaClose>>
  ELSE <<ItemOpen>> \o l \o <<ParaClose>>

\* C16 (as claimed): every list line is rendered as a list item: its text after the
\* bullet glyph, or after the numeral it has in the source.
C16_ListItemRendering ==
  RenderedByPipeline =>
    \A k \in 1..Len(LinesOf(comment.content)) :
      IsSimpleListLine(LinesOf(comment.content)[k]) =>
        Occurs(mainContent, ExpectedItem(LinesOf(comment.content)[k]))

\* C17 (as claimed): a banner line between two paragraphs, a blank line on either side,
\* is removed and the two paragraphs stay two blocks.
C17_BannerKeepsParagraphBreak ==
  RenderedByPipeline /\ comment.content \in BannerBetween
  => mainContent = <<ParaOpen, "First", ParaClose, ParaOpen, "Second", ParaClose>>

\* C18 (as claimed): two paragraphs a blank line apart, the confidence line directly
\* above, below or between them, are two blocks once the confidence is extracted.
C18_ConfidenceKeepsParagraphBreak ==
  RenderedByPipeline /\ comment.content \in ConfidenceBetween
  => /\ confidence.matched
     /\ mainContent = <<ParaOpen, "First", ParaClose, ParaOpen, "Second", ParaClose>>

\* the positions of the rendered text that are inside no block: the tag before them, if
\* any, closes a block
OutsideBlocks(s) ==
  LET tags(i) == {j \in 1..(i - 1) : s[j] \in {ParaOpen, ItemOpen, ParaClose}}
      last(i) == CHOOSE j \in tags(i) : \A k \in tags(i) : k <= j
  IN {i \in 1..Len(s) :
        /\ s[i] \notin {ParaOpen, ItemOpen, ParaClose, "\n"}
        /\ tags(i) = {} \/ s[last(i)] = ParaClose}

\* C19 (as claimed): prose before list lines is a paragraph block and each list line a
\* list-item block, in the order of the source; the output is made of blocks only, and
\* a comment with no list line gives paragraphs only.
C19_ProseThenListBlocks ==
  RenderedByPipeline =>
    /\ OutsideBlocks(mainContent) = {}
    /\ ListLineCount(comment.content) = 0 => Count(mainContent, ItemOpen) = 0
    /\ comment.content = <<"Intro", "\n", "3", ".", " ", "item", "\n", "4", ".", " ", "next">>
         => /\ ParagraphsOf(mainContent) = << <<"Intro">> >>
            /\ ItemsOf(mainContent) = << <<"3", ".", " ", "item">>, <<"4", ".", " ", "next">> >>
            /\ mainContent[1] = ParaOpen
    /\ comment.content = <<"Intro", "\n", "\n", "3", ".", " ", "item">>
         => /\ ParagraphsOf(mainContent) = << <<"Intro">> >>
            /\ ItemsOf(mainContent) = << <<"3", ".", " ", "item">> >>
            /\ mainContent[1] = ParaOpen

\* a line the trailer removal is to remove: it holds "Analysis method:" or begins
\* with three "-"
IsTrailerOrRule(l) == Count(l, "Analysis method:") > 0 \/ HasAt(l, 1, Dashes)

\* the words of the line k of s that stand in no other line of s
OwnWords(s, k) ==
  {c \in {LinesOf(s)[k][j] : j \in 1..Len(LinesOf(s)[k])} :
     /\ c \notin {" ", "-", "*", "Analysis method:"}
     /\ \A m \in 1..Len(LinesOf(s)) : m # k => Count(LinesOf(s)[m], c) = 0}

\* C20 (as claimed): nothing of a line that holds "Analysis method:" or begins with
\* "---" is in the output, and a rule line between two paragraphs leaves them two
\* blocks.
C20_TrailersAndRulesRemoved ==
  RenderedByPipeline =>
    /\ Count(comment.content, "Analysis method:") > 0
         => Count(mainContent, "Analysis method:") = 0
    /\ \A k \in 1..Len(LinesOf(comment.content)) :
         IsTrailerOrRule(LinesOf(comment.content)[k]) =>
           /\ ~Occurs(mainContent, LinesOf(comment.content)[k])
           /\ \A c \in OwnWords(comment.content, k) : Count(mainContent, c) = 0
    /\ \A r \in {Dashes, Dashes \o <<"-", "-">>, Dashes \o <<" ", "note">>} :
         comment.content = <<"First", "\n", "\n">> \o r \o <<"\n", "\n", "Second">>
           => mainContent = <<ParaOpen, "First", ParaClose, ParaOpen, "Second", ParaClose>>

\* C21 (as claimed): no tag of the comment's own text is in the markup handed to the
\* page; the only tags there are those the pipeline writes.
C21_OnlyGeneratedMarkup ==
  RenderedByPipeline => \A c \in RawTags : Count(mainContent, c) = 0

\* C22 (as claimed): a banner line with pictographs before or after it is removed with
\* them: the body is all that is rendered.
C22_DecoratedBannerRemoved ==
  RenderedByPipeline /\ comment.content \in DecoratedBanners
  => mainContent = <<ParaOpen, "Body", ParaClose>>

\* C23 (as claimed): a "#" and a space inside a line stay as they are, and the rest of
\* the line is not put in emphasis markup.
C23_MidLineHashStaysLiteral ==
  RenderedByPipeline /\ comment.content \in MidLineHashTexts
  => /\ Count(mainContent, Strong) = 0
     /\ Count(mainContent, "#") = Count(comment.content, "#")

----------------------------------------------------------------------------
(* The auth store (lib/store/auth.ts) and the API client's token handling *)
(*                                                                         *)
(* A specification covers one load of the application: the store starts    *)
(* from what persist kept of an earlier load, and every call of an async   *)
(* action of the store is a process of its own, stepping at each await.    *)

Responses == {"ok", "401", "error"}

\* the tokens of an earlier login, and those a login of this load stores
OldTokens == [access_token |-> "old", refresh_token |-> "old"]

NewTokens == [access_token |-> "new", refresh_token |-> "new"]

\* what persist (partialize: user, isAuthenticated) can have kept
PersistedStates ==
  { [user |-> Null, isAuthenticated |-> FALSE],
    [user |-> "user", isAuthenticated |-> TRUE],
    [user |-> "user", isAuthenticated |-> FALSE],
    [user |-> "registered", isAuthenticated |-> FALSE] }

AuthInit ==
  /\ PageAtRest /\ tickets = InitialTickets /\ chat = InitialChat
  /\ \E p \in PersistedStates :
       auth = [InitialAuthState EXCEPT !.user = p.user,
                                       !.isAuthenticated = p.isAuthenticated]
  /\ tokens \in {NoTokens, OldTokens}
  /\ calls = [c \in CallIds |-> NoCall]
  /\ atCall = [c \in CallIds |-> NoSnapshot]
  /\ loggedOut = FALSE
  /\ mounted = FALSE

\* the response interceptor: a 401 removes both tokens
Interceptor(r, t) == IF r = "401" THEN NoTokens ELSE t

Snapshot == [user |-> auth.user, isAuthenticated |-> auth.isAuthenticated, tokens |-> tokens]

\* the calls from the pages are made one after the other, MaxCalls at most
CanCall(c) ==
  /\ c \in 1..MaxCalls
  /\ calls[c].pc = "idle"
  /\ c > 1 => calls[c - 1].pc # "idle"

Started(c, kind, at) ==
  calls' = [calls EXCEPT ![c] = [kind |-> kind, pc |-> at, response |-> "none"]]

Settled(c, at, r) ==
  calls' = [calls EXCEPT ![c].pc = at, ![c].response = r]

\* login, up to the first await
Login(c) ==
  /\ CanCall(c)
  /\ auth' = [auth EXCEPT !.isLoading = TRUE]
  /\ Started(c, "login", "post")
  /\ atCall' = [atCall EXCEPT ![c] = Snapshot]
  /\ loggedOut' = FALSE
  /\ UNCHANGED <<tokens, mounted, pageVars, tickets, chat>>

\* apiClient.login settles: the tokens are stored, or the error is caught and rethrown
LoginResponse(c, r) ==
  /\ calls[c].kind = "login" /\ calls[c].pc = "post"
  /\ IF r = "ok"
       THEN /\ tokens' = NewTokens
            /\ Settled(c, "me", r)
            /\ UNCHANGED auth
       ELSE /\ tokens' = Interceptor(r, tokens)
            /\ auth' = [auth EXCEPT !.isLoading = FALSE]
            /\ Settled(c, "threw", r)
  /\ UNCHANGED <<atCall, loggedOut, mounted, pageVars, tickets, chat>>

LoggedInState(a) ==
  [a EXCEPT !.user = "user", !.isAuthenticated = TRUE,
            !.isLoading = FALSE, !.isInitialized = TRUE]

\* apiClient.getCurrentUser of login settles
LoginUser(c, r) ==
  /\ calls[c].kind = "login" /\ calls[c].pc = "me"
  /\ IF r = "ok"
       THEN /\ auth' = LoggedInState(auth)
            /\ Settled(c, "returned", r)
            /\ UNCHANGED tokens
       ELSE /\ tokens' = Interceptor(r, tokens)
            /\ auth' = [auth EXCEPT !.isLoading = FALSE]
            /\ Settled(c, "threw", r)
  /\ UNCHANGED <<atCall, loggedOut, mounted, pageVars, tickets, chat>>

\* register, up to the await
Register(c) ==
  /\ CanCall(c)
  /\ auth' = [auth EXCEPT !.isLoading = TRUE]
  /\ Started(c, "register", "post")
  /\ UNCHANGED <<tokens, atCall, loggedOut, mounted, pageVars, tickets, chat>>

\* apiClient.register settles
RegisterResponse(c, r) ==
  /\ calls[c].kind = "register" /\ calls[c].pc = "post"
  /\ IF r = "ok"
       THEN /\ auth' = [auth EXCEPT !.user = "registered", !.isAuthenticated = FALSE,
                                    !.isLoading = FALSE]
            /\ Settled(c, "returned", r)
            /\ UNCHANGED tokens
       ELSE /\ tokens' = Interceptor(r, tokens)
            /\ auth' = [auth EXCEPT !.isLoading = FALSE]
            /\ Settled(c, "threw", r)
  /\ UNCHANGED <<atCall, loggedOut, mounted, pageVars, tickets, chat>>

\* the store after logout keeps isAuthenticated as it was
LoggedOutKeepsFlag(a) == [a EXCEPT !.user = Null, !.isInitialized = TRUE]

LoggedOutState(a) ==
  [a EXCEPT !.user = Null, !.isAuthenticated = FALSE, !.isInitialized = TRUE]

Logout ==
  /\ tokens' = NoTokens
  /\ auth' = LoggedOutState(auth)
  /\ loggedOut' = TRUE
  /\ UNCHANGED <<calls, atCall, mounted, pageVars, tickets, chat>>

\* the store without a token is left uninitialised
NoTokenUninitialized(a) == [a EXCEPT !.isAuthenticated = FALSE]

NoTokenState(a) == [a EXCEPT !.isAuthenticated = FALSE, !.isInitialized = TRUE]

\* initializeAuth, up to the await, or to its end when there is no token
InitializeAuth(c) ==
  /\ calls[c].pc = "idle"
  /\ IF tokens.access_token # Null
       THEN /\ Started(c, "initializeAuth", "me")
            /\ UNCHANGED auth
       ELSE /\ calls' = [calls EXCEPT ![c] = [kind |-> "initializeAuth",
                                              pc |-> "returned", response |-> "none"]]
            /\ auth' = NoTokenState(auth)
  /\ loggedOut' = FALSE
  /\ UNCHANGED <<tokens, atCall, pageVars, tickets, chat>>

\* apiClient.getCurrentUser of initializeAuth settles
InitUser(c, r) ==
  /\ calls[c].kind = "initializeAuth" /\ calls[c].pc = "me"
  /\ IF r = "ok"
       THEN /\ auth' = [auth EXCEPT !.user = "user", !.isAuthenticated = TRUE,
                                    !.isInitialized = TRUE]
            /\ UNCHANGED tokens
       ELSE /\ tokens' = NoTokens
            /\ auth' = LoggedOutState(auth)
  /\ Settled(c, "returned", r)
  /\ UNCHANGED <<atCall, loggedOut, mounted, pageVars, tickets, chat>>

\* Providers' effect, the one caller of initializeAuth
ProvidersMount ==
  /\ ~mounted
  /\ mounted' = TRUE
  /\ InitializeAuth(0)

\* what DashboardLayout renders
DashboardView ==
  IF ~auth.isInitialized THEN "loading"
  ELSE IF ~auth.isAuthenticated THEN "login"
  ELSE "page"

InitializeAuthSettles == \E c \in CallIds, r \in Responses : InitUser(c, r)

AuthNext ==
  \/ \E c \in CallIds : Login(c) \/ Register(c)
  \/ \E c \in CallIds, r \in Responses : LoginResponse(c, r) \/ LoginUser(c, r)
  \/ \E c \in CallIds, r \in Responses : RegisterResponse(c, r)
  \/ InitializeAuthSettles
  \/ Logout
  \/ ProvidersMount

AuthSpec == AuthInit /\ [][AuthNext]_vars

\* Providers mounts with the application, and a request is assumed to settle
AuthLiveSpec ==
  AuthSpec /\ WF_vars(ProvidersMount) /\ WF_vars(InitializeAuthSettles)

----------------------------------------------------------------------------
(* Claims about the auth store *)

\* C24: once logout has run and until login or initializeAuth is called again,
\* the store is not authenticated, whatever call made before the logout
\* completes after it.
C24_LogoutIsFinal == loggedOut => ~auth.isAuthenticated

\* C25: in every reachable state of the auth store, whatever the interleaving of
\* login, register, logout and initializeAuth and their outcomes,
\* isAuthenticated is true only if user is not null.
C25_AuthenticatedHasUser == auth.isAuthenticated => auth.user # Null

\* C25 witness: the store is authenticated with a user after a logout, a login
\* that went through and another call that failed.
C25_Witness ==
  /\ auth.isAuthenticated /\ auth.user # Null
  /\ loggedOut
  /\ \E c \in CallIds : calls[c].kind = "login" /\ calls[c].pc = "returned"
  /\ \E c \in CallIds : calls[c].pc = "threw"
  /\ calls[0].pc = "returned"

\* the login call c is the only call of an action of the store made so far
OnlyCall(c) ==
  /\ ~mounted /\ ~loggedOut
  /\ \A d \in CallIds \ {c} : calls[d].pc = "idle"

\* C26: when a login fails, at the login request or at the current-user request,
\* and nothing else acted on the store meanwhile, user, isAuthenticated and the
\* stored tokens are what they were before the call, and isLoading is false.
C26_FailedLoginRestores ==
  \A c \in CallIds :
    (calls[c].kind = "login" /\ calls[c].pc = "threw" /\ OnlyCall(c))
      => /\ auth.user = atCall[c].user
         /\ auth.isAuthenticated = atCall[c].isAuthenticated
         /\ tokens = atCall[c].tokens
         /\ ~auth.isLoading

\* the step in which the initializeAuth call c ends
InitEnds(c) ==
  /\ calls[c].pc # "returned"
  /\ calls'[c].kind = "initializeAuth" /\ calls'[c].pc = "returned"

\* the store and localStorage at the end of the initializeAuth call c
InitOutcome(c) ==
  /\ auth'.isInitialized
  /\ IF calls'[c].response = "ok"
       THEN auth'.isAuthenticated /\ auth'.user = "user"
       ELSE ~auth'.isAuthenticated /\ tokens' = NoTokens

\* C27: every initializeAuth call whose request settles ends with isInitialized
\* true, authenticated with the fetched user when a token exists and the request
\* succeeds, not authenticated and without tokens when the request fails or no
\* token exists; isInitialized never goes back to false; and the dashboard guard
\* eventually leaves its loading state.
C27_InitializationCompletes ==
  /\ [][\A c \in CallIds : InitEnds(c) => InitOutcome(c)]_vars
  /\ [][auth.isInitialized => auth'.isInitialized]_vars
  /\ <>(DashboardView # "loading")

\* C27 witness: initializeAuth found a token, its request failed, and the guard
\* redirects to the login page.
C27_Witness ==
  /\ calls[0].kind = "initializeAuth" /\ calls[0].pc = "returned"
  /\ calls[0].response \in {"401", "error"}
  /\ auth.isInitialized /\ ~auth.isAuthenticated /\ tokens = NoTokens
  /\ DashboardView = "login"
  /\ \A c \in CallIds \ {0} : calls[c].pc = "idle"

----------------------------------------------------------------------------
(* The tickets list (TicketsContent): filters, debounced search and paging *)

\* a signed-in user, as the dashboard guard requires for its pages
SignedIn ==
  /\ auth = LoggedInState(InitialAuthState)
  /\ tokens = OldTokens
  /\ calls = [c \in CallIds |-> NoCall]
  /\ atCall = [c \in CallIds |-> NoSnapshot]
  /\ loggedOut = FALSE
  /\ mounted = TRUE

MaxPages == 3

Queries == {"", "a", "ab"}

\* after the first render the debounce effect has set its timer
TicketsInit ==
  /\ PageAtRest /\ SignedIn /\ chat = InitialChat
  /\ tickets = [InitialTickets EXCEPT !.timer = ""]

\* the key of the query whose data is shown
QueryKey(t) ==
  <<t.activeTab, t.currentPage, t.debouncedSearchQuery, t.statusFilter, t.priorityFilter>>

\* the next render: under a new query key the data, and with it totalPages, is not there yet
NextRender(t, n) == IF QueryKey(n) = QueryKey(t) THEN n ELSE [n EXCEPT !.totalPages = 0]

TicketsStep(n) ==
  /\ tickets' = NextRender(tickets, n)
  /\ UNCHANGED <<pageVars, authVars, chat>>

\* the request of the current key answers with a total of n pages
TicketsLoaded(n) ==
  /\ tickets.totalPages = 0
  /\ tickets' = [tickets EXCEPT !.totalPages = n]
  /\ UNCHANGED <<pageVars, authVars, chat>>

\* onChange of the search box: handleFilterChange, then the effect restarts the timer
TypeSearch(q) ==
  /\ q # tickets.searchQuery
  /\ TicketsStep([tickets EXCEPT !.currentPage = 1, !.searchQuery = q, !.timer = q])

SelectStatus(s) ==
  /\ s # tickets.statusFilter
  /\ TicketsStep([tickets EXCEPT !.currentPage = 1, !.statusFilter = s])

SelectPriority(p) ==
  /\ p # tickets.priorityFilter
  /\ TicketsStep([tickets EXCEPT !.currentPage = 1, !.priorityFilter = p])

\* handleSearchKeyPress with the Enter key
PressEnter ==
  /\ tickets' = NextRender(tickets, [tickets EXCEPT !.debouncedSearchQuery = tickets.searchQuery,
                                                    !.currentPage = 1])
  /\ UNCHANGED <<pageVars, authVars, chat>>

\* the timeout of the debounce effect, 1500 ms after the last change of searchQuery
TimerExpires ==
  /\ tickets.timer # Null
  /\ TicketsStep([tickets EXCEPT !.debouncedSearchQuery = tickets.timer, !.timer = Null])

handleTabChange(tab) ==
  /\ tab # tickets.activeTab
  /\ TicketsStep([tickets EXCEPT !.activeTab = tab, !.currentPage = 1])

\* the pagination controls exist when there is more than one page
PreviousPage ==
  /\ tickets.totalPages > 1 /\ tickets.currentPage > 1
  /\ TicketsStep([tickets EXCEPT !.currentPage = tickets.currentPage - 1])

NextPage ==
  /\ tickets.totalPages > 1 /\ tickets.currentPage < tickets.totalPages
  /\ TicketsStep([tickets EXCEPT !.currentPage = tickets.currentPage + 1])

\* the numbered buttons; up to seven pages there is one for every page
GoToPage(i) ==
  /\ tickets.totalPages > 1 /\ i <= tickets.totalPages /\ i # tickets.currentPage
  /\ TicketsStep([tickets EXCEPT !.currentPage = i])

TicketsNext ==
  \/ \E n \in 1..MaxPages : TicketsLoaded(n)
  \/ \E q \in Queries : TypeSearch(q)
  \/ \E s \in {"all", "open"} : SelectStatus(s)
  \/ \E p \in {"all", "high"} : SelectPriority(p)
  \/ PressEnter
  \/ TimerExpires
  \/ \E tab \in {"all", "my"} : handleTabChange(tab)
  \/ PreviousPage
  \/ NextPage
  \/ \E i \in 1..MaxPages : GoToPage(i)

TicketsSpec == TicketsInit /\ [][TicketsNext]_vars

\* the filters the tickets are fetched with
FetchFilters ==
  <<tickets.debouncedSearchQuery, tickets.statusFilter, tickets.priorityFilter,
    tickets.activeTab>>

\* C28: whenever the debounced search query, the status filter, the priority
\* filter or the active tab changes, the current page is 1 afterwards, so that
\* the request for the new filters asks for page 1.
C28_FiltersChangeOnPageOne ==
  [][FetchFilters' # FetchFilters => tickets'.currentPage = 1]_vars

----------------------------------------------------------------------------
(* The AI chat panel (components/ui/ai-chat.tsx) *)

MaxSessions == 2

Messages == {"hi", "ok"}

ChatInit ==
  /\ PageAtRest /\ SignedIn /\ tickets = InitialTickets
  /\ \E n \in 0..(MaxSessions - 1) : chat = [InitialChat EXCEPT !.server = n]

\* the lists getTicketChatSessions can answer with, oldest or newest session first
SessionLists(n) == {[i \in 1..n |-> i], [i \in 1..n |-> n + 1 - i]}

\* the effect of lines 111-115, run after the render that follows every change
AutoSelect(c) ==
  IF c.currentSession = NoSession /\ Len(c.sessions) > 0
    THEN [c EXCEPT !.currentSession = c.sessions[1]]
    ELSE c

ChatStep(c, event) ==
  /\ chat' = AutoSelect([c EXCEPT !.last = event])
  /\ UNCHANGED <<pageVars, authVars, tickets>>

\* the round button, and the X of the panel
ToggleOpen ==
  /\ chat' = AutoSelect([chat EXCEPT !.isOpen = ~chat.isOpen, !.last = "toggled"])
  /\ UNCHANGED <<pageVars, authVars, tickets>>

\* the sessions query, enabled while the panel is open, answers (again after an invalidation)
SessionsLoaded ==
  /\ chat.isOpen
  /\ \E l \in SessionLists(chat.server) :
       /\ l # chat.sessions
       /\ ChatStep([chat EXCEPT !.sessions = l], "loaded")

\* the text box, disabled while a mutation is pending
TypeMessage(m) ==
  /\ chat.isOpen /\ chat.pending = "none"
  /\ m # chat.content
  /\ ChatStep([chat EXCEPT !.content = m], "typed")

\* onSubmit, reached when the text passes the schema (min 1)
Submit ==
  /\ chat.isOpen /\ chat.pending = "none"
  /\ chat.content # ""
  /\ ChatStep([chat EXCEPT !.pending = IF chat.currentSession = NoSession
                                         THEN "create" ELSE "send",
                           !.newChat = FALSE], "submitted")

\* the form after the create request succeeded: reset only if it is empty
AfterCreate(content) == IF content = "" THEN "" ELSE content

\* createSessionMutation onSuccess; the server holds MaxSessions sessions at most
CreateSucceeds ==
  /\ chat.pending = "create"
  /\ chat.server < MaxSessions
  /\ ChatStep([chat EXCEPT !.pending = "none",
                           !.server = chat.server + 1,
                           !.currentSession = chat.server + 1,
                           !.content = AfterCreate(chat.content)], "created")

\* createSessionMutation onError
CreateFails ==
  /\ chat.pending = "create"
  /\ ChatStep([chat EXCEPT !.pending = "none"], "failed")

\* sendMessageMutation onSuccess
SendSucceeds ==
  /\ chat.pending = "send"
  /\ ChatStep([chat EXCEPT !.pending = "none", !.content = ""], "sent")

\* sendMessageMutation onError
SendFails ==
  /\ chat.pending = "send"
  /\ ChatStep([chat EXCEPT !.pending = "none"], "failed")

\* the button exists when the ticket has sessions
startNewChat ==
  /\ chat.isOpen /\ Len(chat.sessions) > 0
  /\ ChatStep([chat EXCEPT !.currentSession = NoSession, !.content = "",
                           !.newChat = TRUE], "new chat")

\* the buttons of the first three sessions, shown when there are several
selectSession(i) ==
  /\ chat.isOpen /\ Len(chat.sessions) > 1
  /\ i <= Len(chat.sessions)
  /\ chat.sessions[i] # chat.currentSession
  /\ ChatStep([chat EXCEPT !.currentSession = chat.sessions[i], !.newChat = FALSE],
              "selected")

ChatNext ==
  \/ ToggleOpen
  \/ SessionsLoaded
  \/ \E m \in Messages : TypeMessage(m)
  \/ Submit
  \/ CreateSucceeds
  \/ CreateFails
  \/ SendSucceeds
  \/ SendFails
  \/ startNewChat
  \/ \E i \in 1..3 : selectSession(i)

ChatSpec == ChatInit /\ [][ChatNext]_vars

\* C29: after "Start new chat" the current session stays null until a message
\* is submitted, so that the next submit creates a new session.
C29_NewChatStaysNull == chat.newChat => chat.currentSession = NoSession

\* C30: after a successful submit, whether it created a session or sent the
\* message into the current one, the message input is empty.
C30_InputResetAfterSubmit == chat.last \in {"created", "sent"} => chat.content = ""

====
